---- MODULE Spec2Model ----
(***************************************************************************)
(* A model of mongodbstore (src/mongodbstore.go): a gorilla/sessions store *)
(* that keeps the encoded session values in a MongoDB collection and hands *)
(* the client a cookie token that carries the session identifier only.     *)
(*                                                                         *)
(* State: the store (codec list, default options), the collection (a set   *)
(* of documents), the wall clock in seconds, the session object of the     *)
(* request being served, the ObjectID counter of the driver, and `last',   *)
(* the record of the last store operation (its arguments, its error and    *)
(* the calls it made on the collection and on the token transport).        *)
(*                                                                         *)
(* Two specifications share this state.  Spec serves one request at a      *)
(* time, each store call being one step.  ConcSpec serves two requests of  *)
(* one client at once: `reqs' holds each request's position in its handler *)
(* and in Save, `jar' the cookie the client holds, and the store can be    *)
(* rebuilt with a rotated key list.                                        *)
(***************************************************************************)
EXTENDS Integers, Sequences, FiniteSets, TLC

VARIABLES store, coll, clock, session, nextOid, last, reqs, jar

vars == <<store, coll, clock, session, nextOid, last, reqs, jar>>

(***************************************************************************)
(* Bounds of the model.                                                    *)
(***************************************************************************)
\* the clock runs from 0 to MaxClock seconds
MaxClock == 2
\* primitive.NewObjectID() is called at most MaxIds times
MaxIds == 2

(***************************************************************************)
(* Errors.  Nil is Go's nil error.                                         *)
(***************************************************************************)
Nil == "nil"
ErrInvalidId == "mongodbstore: invalid session id"
ErrInvalidModified == "mongodbstore: invalid modified value"
\* securecookie.DecodeMulti / EncodeMulti failures
ErrDecode == "securecookie: the value is not valid"
ErrEncode == "securecookie: error encoding"
\* mongo driver failures
ErrNoDocuments == "mongo: no documents in result"
ErrDB == "mongo: server selection error"

(***************************************************************************)
(* Identifiers.  An ObjectID is a 12-byte key, here a number of            *)
(* 1..MaxIds; its Hex() form is a 24-digit lower-case string.              *)
(* ObjectIDFromHex accepts exactly the 24-digit hex strings.               *)
(***************************************************************************)
HexTable ==
    <<"00000000000000000000000a", "00000000000000000000000b",
      "00000000000000000000000c", "00000000000000000000000d">>

ObjIds == 1..MaxIds

Hex(oid) == HexTable[oid]

\* a string that is no hex key
NotHex == "not-a-hex-id"

ObjectIDFromHex(s) ==
    IF \E o \in ObjIds : Hex(o) = s
    THEN [ok |-> TRUE, oid |-> CHOOSE o \in ObjIds : Hex(o) = s]
    ELSE [ok |-> FALSE, oid |-> 0]

(***************************************************************************)
(* Session values: map[interface{}]interface{}.  Two keys are modelled:    *)
(* "foo" (absent, a string, or a value gob cannot serialise) and the       *)
(* reserved key "modified" (absent, a time.Time, or a value of another     *)
(* type).                                                                  *)
(***************************************************************************)
FooVals == {"absent", "bar", "unencodable"}

NoModified == [kind |-> "absent", t |-> 0]
BadModified == [kind |-> "string", t |-> 0]
TimeModified(t) == [kind |-> "time", t |-> t]

\* the timestamps an application pins under "modified"
PinTimes == {0}

ModifiedVals == {NoModified, BadModified} \cup {TimeModified(t) : t \in PinTimes}

EmptyValues == [foo |-> "absent", modified |-> NoModified]

\* the values a handler leaves in session.Values before it saves
ValuesSet ==
    {EmptyValues,
     [foo |-> "unencodable", modified |-> NoModified],
     [foo |-> "absent", modified |-> BadModified]}
    \cup {[foo |-> "bar", modified |-> TimeModified(t)] : t \in PinTimes}

(***************************************************************************)
(* securecookie.  A token is the authenticated encoding of a payload under *)
(* a codec key and a name, stamped with the time of encoding.              *)
(*   kind "none"  : no cookie in the request                               *)
(*   kind "empty" : the empty string                                       *)
(*   kind "enc"   : an encoded value                                       *)
(***************************************************************************)
StringPayload(s) == [type |-> "string", str |-> s, map |-> EmptyValues]
MapPayload(v) == [type |-> "map", str |-> "", map |-> v]

NoToken == [kind |-> "none", key |-> "", name |-> "", payload |-> StringPayload(""), ts |-> 0]
EmptyToken == [kind |-> "empty", key |-> "", name |-> "", payload |-> StringPayload(""), ts |-> 0]
Token(key, name, payload, ts) ==
    [kind |-> "enc", key |-> key, name |-> name, payload |-> payload, ts |-> ts]

\* gob serialisation of a payload
Serializable(payload) ==
    payload.type = "string" \/ payload.map.foo # "unencodable"

\* securecookie.EncodeMulti: the first codec that encodes wins
RECURSIVE EncodeFrom(_, _, _, _, _)
EncodeFrom(codecs, i, name, payload, now) ==
    IF i > Len(codecs)
    THEN [err |-> ErrEncode, tok |-> EmptyToken]
    ELSE IF Serializable(payload)
    THEN [err |-> Nil, tok |-> Token(codecs[i].key, name, payload, now)]
    ELSE EncodeFrom(codecs, i + 1, name, payload, now)

EncodeMulti(name, payload, codecs, now) == EncodeFrom(codecs, 1, name, payload, now)

\* SecureCookie.Decode: MAC over name and value, timestamp window, then
\* deserialisation into the destination's type
DecodeOne(codec, name, tok, dstType, now) ==
    /\ tok.kind = "enc"
    /\ tok.key = codec.key
    /\ tok.name = name
    /\ ~(codec.maxAge # 0 /\ tok.ts < now - codec.maxAge)
    /\ tok.payload.type = dstType

\* DecodeMulti that gives up after the first codec
DecodeMulti_FirstCodecOnly(name, tok, dstType, codecs, now) ==
    IF Len(codecs) >= 1 /\ DecodeOne(codecs[1], name, tok, dstType, now)
    THEN [err |-> Nil, payload |-> tok.payload]
    ELSE [err |-> ErrDecode, payload |-> StringPayload("")]

\* securecookie.DecodeMulti: the codecs are tried in order
RECURSIVE DecodeFrom(_, _, _, _, _, _)
DecodeFrom(codecs, i, name, tok, dstType, now) ==
    IF i > Len(codecs)
    THEN [err |-> ErrDecode, payload |-> StringPayload("")]
    ELSE IF DecodeOne(codecs[i], name, tok, dstType, now)
    THEN [err |-> Nil, payload |-> tok.payload]
    ELSE DecodeFrom(codecs, i + 1, name, tok, dstType, now)

DecodeMulti(name, tok, dstType, codecs, now) == DecodeFrom(codecs, 1, name, tok, dstType, now)

\* securecookie.New: a codec starts with a 30 day window
DefaultCodecMaxAge == 2592000

CodecsFromPairs(keys) == [i \in 1..Len(keys) |-> [key |-> keys[i], maxAge |-> DefaultCodecMaxAge]]

(***************************************************************************)
(* The store.                                                              *)
(***************************************************************************)
KeyA == "key-A"
SessionName == "session-key"

\* the max-age values given to the store: no expiry, or one second
Ages == {0, 1}

\* MaxAge whose loop stops after the first codec
MaxAge_FirstCodecOnly(m, age) ==
    [m EXCEPT !.Options.MaxAge = age,
              !.Codecs = [i \in 1..Len(m.Codecs) |->
                             IF i = 1 THEN [m.Codecs[i] EXCEPT !.maxAge = age]
                             ELSE m.Codecs[i]]]

\* MongoDBStore.MaxAge
MaxAge(m, age) ==
    [m EXCEPT !.Options.MaxAge = age,
              !.Codecs = [i \in 1..Len(m.Codecs) |-> [m.Codecs[i] EXCEPT !.maxAge = age]]]

NewMongoDBStore(maxAge, keys) ==
    MaxAge([Codecs |-> CodecsFromPairs(keys),
            Options |-> [Path |-> "/", MaxAge |-> maxAge]], maxAge)

(***************************************************************************)
(* Sessions and documents.                                                 *)
(***************************************************************************)
\* sessions.NewSession.  session.Options is a pointer: OptionsAt says
\* whether it points to a struct of the session's own or to the store's
\* m.Options
NewSession(name) ==
    [live |-> TRUE, name |-> name, ID |-> "", Values |-> EmptyValues,
     Options |-> [Path |-> "", MaxAge |-> 0], OptionsAt |-> "session", IsNew |-> TRUE]

NoSession == [NewSession("") EXCEPT !.live = FALSE]

\* type Session struct: the persisted document
Document(oid, data, modified) == [ID |-> oid, Data |-> data, Modified |-> modified]

\* one call on the collection or on the token transport: the function, the
\* key it was given, whether the collection answered, and the second in
\* which the data of the document it matched was encoded (-1 when it
\* matched none)
Call(fn, oid, ok, old) == [fn |-> fn, oid |-> oid, ok |-> ok, old |-> old]

Matched(c, oid) ==
    IF \E d \in c : d.ID = oid THEN (CHOOSE d \in c : d.ID = oid).Data.ts ELSE -1

NoSet == [called |-> FALSE, value |-> NoToken, opts |-> [Path |-> "", MaxAge |-> 0]]

\* TokenGetSeter.SetToken(w, name, value, options)
SetToken(value, options) == [called |-> TRUE, value |-> value, opts |-> options]

\* collection.FindOne(_id).Decode(&s)
FindOne(c, oid, db) ==
    IF db = "down" THEN [err |-> ErrDB, doc |-> Document(0, EmptyToken, 0)]
    ELSE IF \E d \in c : d.ID = oid
    THEN [err |-> Nil, doc |-> CHOOSE d \in c : d.ID = oid]
    ELSE [err |-> ErrNoDocuments, doc |-> Document(0, EmptyToken, 0)]

\* ReplaceOne that keeps the keys of the matched document's values that
\* the new values do not have
ReplaceOne_Merges(c, oid, s, db) ==
    IF db = "down" THEN [err |-> ErrDB, coll |-> c]
    ELSE IF \E d \in c : d.ID = oid
    THEN LET old == (CHOOSE d \in c : d.ID = oid).Data.payload.map
             new == s.Data.payload.map
             merged == [foo |-> IF new.foo = "absent" THEN old.foo ELSE new.foo,
                        modified |-> IF new.modified.kind = "absent"
                                     THEN old.modified ELSE new.modified]
         IN [err |-> Nil,
             coll |-> (c \ {CHOOSE d \in c : d.ID = oid})
                      \cup {[s EXCEPT !.Data.payload.map = merged]}]
    ELSE [err |-> Nil, coll |-> c \cup {s}]

\* ReplaceOne that inserts without removing the document it matched
ReplaceOne_Inserts(c, oid, s, db) ==
    IF db = "down" THEN [err |-> ErrDB, coll |-> c]
    ELSE [err |-> Nil, coll |-> c \cup {s}]

\* collection.ReplaceOne(_id, &s, Upsert: true)
ReplaceOne(c, oid, s, db) ==
    IF db = "down" THEN [err |-> ErrDB, coll |-> c]
    ELSE IF \E d \in c : d.ID = oid
    THEN [err |-> Nil, coll |-> (c \ {CHOOSE d \in c : d.ID = oid}) \cup {s}]
    ELSE [err |-> Nil, coll |-> c \cup {s}]

\* DeleteOne that removes every document when it matches one
DeleteOne_Many(c, oid, db) ==
    IF db = "down" THEN [err |-> ErrDB, coll |-> c]
    ELSE IF \E d \in c : d.ID = oid
    THEN [err |-> Nil, coll |-> {}]
    ELSE [err |-> Nil, coll |-> c]

\* collection.DeleteOne(_id)
DeleteOne(c, oid, db) ==
    IF db = "down" THEN [err |-> ErrDB, coll |-> c]
    ELSE IF \E d \in c : d.ID = oid
    THEN [err |-> Nil, coll |-> c \ {CHOOSE d \in c : d.ID = oid}]
    ELSE [err |-> Nil, coll |-> c]

\* load without line 156: the data is never decoded into session.Values
load_ForgetsValues(m, c, s, now, db) ==
    LET p == ObjectIDFromHex(s.ID) IN
    IF ~p.ok THEN [err |-> ErrInvalidId, session |-> s, calls |-> <<>>]
    ELSE
    LET f == FindOne(c, p.oid, db) IN
    IF f.err # Nil
    THEN [err |-> f.err, session |-> s,
          calls |-> <<Call("FindOne", p.oid, f.err = ErrNoDocuments, -1)>>]
    ELSE [err |-> Nil, session |-> s, calls |-> <<Call("FindOne", p.oid, TRUE, f.doc.Data.ts)>>]

\* MongoDBStore.load
load(m, c, s, now, db) ==
    LET p == ObjectIDFromHex(s.ID) IN
    IF ~p.ok THEN [err |-> ErrInvalidId, session |-> s, calls |-> <<>>]
    ELSE
    LET f == FindOne(c, p.oid, db) IN
    IF f.err # Nil
    THEN [err |-> f.err, session |-> s,
          calls |-> <<Call("FindOne", p.oid, f.err = ErrNoDocuments, -1)>>]
    ELSE
    LET d == DecodeMulti(s.name, f.doc.Data, "map", m.Codecs, now) IN
    IF d.err # Nil
    THEN [err |-> d.err, session |-> s, calls |-> <<Call("FindOne", p.oid, TRUE, f.doc.Data.ts)>>]
    ELSE [err |-> Nil, session |-> [s EXCEPT !.Values = d.payload.map],
          calls |-> <<Call("FindOne", p.oid, TRUE, f.doc.Data.ts)>>]

\* upsert that goes on with the zero ObjectID when the identifier does not
\* parse
upsert_IgnoresParseError(m, c, s, now, db) ==
    LET p == ObjectIDFromHex(s.ID) IN
    IF s.Values.modified.kind = "string"
    THEN [err |-> ErrInvalidModified, coll |-> c, calls |-> <<>>]
    ELSE
    LET modified == IF s.Values.modified.kind = "time" THEN s.Values.modified.t ELSE now
        e == EncodeMulti(s.name, MapPayload(s.Values), m.Codecs, now)
    IN
    IF e.err # Nil THEN [err |-> e.err, coll |-> c, calls |-> <<>>]
    ELSE
    LET r == ReplaceOne(c, p.oid, Document(p.oid, e.tok, modified), db) IN
    [err |-> r.err, coll |-> r.coll,
     calls |-> <<Call("ReplaceOne", p.oid, r.err = Nil, IF r.err = Nil THEN Matched(c, p.oid) ELSE -1)>>]

\* upsert that always stamps the document with time.Now()
upsert_StampsNow(m, c, s, now, db) ==
    LET p == ObjectIDFromHex(s.ID) IN
    IF ~p.ok THEN [err |-> ErrInvalidId, coll |-> c, calls |-> <<>>]
    ELSE IF s.Values.modified.kind = "string"
    THEN [err |-> ErrInvalidModified, coll |-> c, calls |-> <<>>]
    ELSE
    LET e == EncodeMulti(s.name, MapPayload(s.Values), m.Codecs, now) IN
    IF e.err # Nil THEN [err |-> e.err, coll |-> c, calls |-> <<>>]
    ELSE
    LET r == ReplaceOne(c, p.oid, Document(p.oid, e.tok, now), db) IN
    [err |-> r.err, coll |-> r.coll,
     calls |-> <<Call("ReplaceOne", p.oid, r.err = Nil, IF r.err = Nil THEN Matched(c, p.oid) ELSE -1)>>]

\* upsert without the type check of lines 171-174: a "modified" value that
\* is no time.Time is stamped as time.Now()
upsert_AcceptsAnyModified(m, c, s, now, db) ==
    LET p == ObjectIDFromHex(s.ID) IN
    IF ~p.ok THEN [err |-> ErrInvalidId, coll |-> c, calls |-> <<>>]
    ELSE
    LET modified == IF s.Values.modified.kind = "time" THEN s.Values.modified.t ELSE now
        e == EncodeMulti(s.name, MapPayload(s.Values), m.Codecs, now)
    IN
    IF e.err # Nil THEN [err |-> e.err, coll |-> c, calls |-> <<>>]
    ELSE
    LET r == ReplaceOne(c, p.oid, Document(p.oid, e.tok, modified), db) IN
    [err |-> r.err, coll |-> r.coll,
     calls |-> <<Call("ReplaceOne", p.oid, r.err = Nil, IF r.err = Nil THEN Matched(c, p.oid) ELSE -1)>>]

\* MongoDBStore.upsert
upsert(m, c, s, now, db) ==
    LET p == ObjectIDFromHex(s.ID) IN
    IF ~p.ok THEN [err |-> ErrInvalidId, coll |-> c, calls |-> <<>>]
    ELSE IF s.Values.modified.kind = "string"
    THEN [err |-> ErrInvalidModified, coll |-> c, calls |-> <<>>]
    ELSE
    LET modified == IF s.Values.modified.kind = "time" THEN s.Values.modified.t ELSE now
        e == EncodeMulti(s.name, MapPayload(s.Values), m.Codecs, now)
    IN
    IF e.err # Nil THEN [err |-> e.err, coll |-> c, calls |-> <<>>]
    ELSE
    LET r == ReplaceOne(c, p.oid, Document(p.oid, e.tok, modified), db) IN
    [err |-> r.err, coll |-> r.coll,
     calls |-> <<Call("ReplaceOne", p.oid, r.err = Nil, IF r.err = Nil THEN Matched(c, p.oid) ELSE -1)>>]

\* delete that reports no error for an identifier that does not parse
delete_ToleratesInvalidId(c, s, db) ==
    LET p == ObjectIDFromHex(s.ID) IN
    IF ~p.ok THEN [err |-> Nil, coll |-> c, calls |-> <<>>]
    ELSE
    LET r == DeleteOne(c, p.oid, db) IN
    [err |-> r.err, coll |-> r.coll,
     calls |-> <<Call("DeleteOne", p.oid, r.err = Nil, IF r.err = Nil THEN Matched(c, p.oid) ELSE -1)>>]

\* MongoDBStore.delete
delete(c, s, db) ==
    LET p == ObjectIDFromHex(s.ID) IN
    IF ~p.ok THEN [err |-> ErrInvalidId, coll |-> c, calls |-> <<>>]
    ELSE
    LET r == DeleteOne(c, p.oid, db) IN
    [err |-> r.err, coll |-> r.coll,
     calls |-> <<Call("DeleteOne", p.oid, r.err = Nil, IF r.err = Nil THEN Matched(c, p.oid) ELSE -1)>>]

\* New without lines 96-98: the error of load is returned
New_SurfacesLoadError(m, c, name, cook, t1, t2, db) ==
    LET s0 == [NewSession(name) EXCEPT !.Options = [Path |-> m.Options.Path,
                                                     MaxAge |-> m.Options.MaxAge]]
    IN
    IF cook.kind = "none" THEN [err |-> Nil, session |-> s0, calls |-> <<>>]
    ELSE
    LET d == DecodeMulti(name, cook, "string", m.Codecs, t1) IN
    IF d.err # Nil THEN [err |-> d.err, session |-> s0, calls |-> <<>>]
    ELSE
    LET s1 == [s0 EXCEPT !.ID = d.payload.str]
        l == load(m, c, s1, t2, db)
    IN
    IF l.err = Nil
    THEN [err |-> Nil, session |-> [l.session EXCEPT !.IsNew = FALSE], calls |-> l.calls]
    ELSE [err |-> l.err, session |-> l.session, calls |-> l.calls]

\* New that marks the session loaded whatever load returns
New_AlwaysLoaded(m, c, name, cook, t1, t2, db) ==
    LET s0 == [NewSession(name) EXCEPT !.Options = [Path |-> m.Options.Path,
                                                     MaxAge |-> m.Options.MaxAge]]
    IN
    IF cook.kind = "none" THEN [err |-> Nil, session |-> s0, calls |-> <<>>]
    ELSE
    LET d == DecodeMulti(name, cook, "string", m.Codecs, t1) IN
    IF d.err # Nil THEN [err |-> d.err, session |-> s0, calls |-> <<>>]
    ELSE
    LET s1 == [s0 EXCEPT !.ID = d.payload.str]
        l == load(m, c, s1, t2, db)
    IN
    [err |-> Nil, session |-> [l.session EXCEPT !.IsNew = FALSE], calls |-> l.calls]

\* New that hands out the store's own Options struct instead of a copy
New_SharesOptions(m, c, name, cook, t1, t2, db) ==
    LET s0 == [NewSession(name) EXCEPT !.Options = m.Options, !.OptionsAt = "store"]
    IN
    IF cook.kind = "none" THEN [err |-> Nil, session |-> s0, calls |-> <<>>]
    ELSE
    LET d == DecodeMulti(name, cook, "string", m.Codecs, t1) IN
    IF d.err # Nil THEN [err |-> d.err, session |-> s0, calls |-> <<>>]
    ELSE
    LET s1 == [s0 EXCEPT !.ID = d.payload.str]
        l == load(m, c, s1, t2, db)
    IN
    IF l.err = Nil
    THEN [err |-> Nil, session |-> [l.session EXCEPT !.IsNew = FALSE], calls |-> l.calls]
    ELSE [err |-> Nil, session |-> l.session, calls |-> l.calls]

\* New that drops the error of the cookie's DecodeMulti
New_DropsDecodeError(m, c, name, cook, t1, t2, db) ==
    LET s0 == [NewSession(name) EXCEPT !.Options = [Path |-> m.Options.Path,
                                                     MaxAge |-> m.Options.MaxAge]]
    IN
    IF cook.kind = "none" THEN [err |-> Nil, session |-> s0, calls |-> <<>>]
    ELSE
    LET d == DecodeMulti(name, cook, "string", m.Codecs, t1) IN
    IF d.err # Nil THEN [err |-> Nil, session |-> s0, calls |-> <<>>]
    ELSE
    LET s1 == [s0 EXCEPT !.ID = d.payload.str]
        l == load(m, c, s1, t2, db)
    IN
    IF l.err = Nil
    THEN [err |-> Nil, session |-> [l.session EXCEPT !.IsNew = FALSE], calls |-> l.calls]
    ELSE [err |-> Nil, session |-> l.session, calls |-> l.calls]

\* MongoDBStore.New: cook is the request's cookie (NoToken when GetToken
\* fails), t1 and t2 the clock at the cookie's and at the data's decoding
New(m, c, name, cook, t1, t2, db) ==
    LET s0 == [NewSession(name) EXCEPT !.Options = [Path |-> m.Options.Path,
                                                     MaxAge |-> m.Options.MaxAge]]
    IN
    IF cook.kind = "none" THEN [err |-> Nil, session |-> s0, calls |-> <<>>]
    ELSE
    LET d == DecodeMulti(name, cook, "string", m.Codecs, t1) IN
    IF d.err # Nil THEN [err |-> d.err, session |-> s0, calls |-> <<>>]
    ELSE
    LET s1 == [s0 EXCEPT !.ID = d.payload.str]
        l == load(m, c, s1, t2, db)
    IN
    IF l.err = Nil
    THEN [err |-> Nil, session |-> [l.session EXCEPT !.IsNew = FALSE], calls |-> l.calls]
    ELSE [err |-> Nil, session |-> l.session, calls |-> l.calls]

\* Save that clears the cookie without deleting the document
Save_NoDelete(m, c, s, now, db, oid) ==
    IF s.Options.MaxAge < 0
    THEN [err |-> Nil, coll |-> c, session |-> s,
          calls |-> <<Call("SetToken", 0, TRUE, -1)>>,
          set |-> SetToken(EmptyToken, s.Options)]
    ELSE
        LET s1 == IF s.ID = "" THEN [s EXCEPT !.ID = Hex(oid)] ELSE s
            u == upsert(m, c, s1, now, db)
            e == EncodeMulti(s1.name, StringPayload(s1.ID), m.Codecs, now)
        IN
        IF u.err # Nil \/ e.err # Nil
        THEN [err |-> IF u.err # Nil THEN u.err ELSE e.err, coll |-> u.coll,
              session |-> s1, calls |-> u.calls, set |-> NoSet]
        ELSE [err |-> Nil, coll |-> u.coll, session |-> s1,
              calls |-> Append(u.calls, Call("SetToken", 0, TRUE, -1)),
              set |-> SetToken(e.tok, s1.Options)]

\* Save that sets the cookie before it looks at the result of the upsert
Save_CookieFirst(m, c, s, now, db, oid) ==
    IF s.Options.MaxAge < 0
    THEN
        LET d == delete(c, s, db) IN
        IF d.err # Nil
        THEN [err |-> d.err, coll |-> c, session |-> s, calls |-> d.calls, set |-> NoSet]
        ELSE [err |-> Nil, coll |-> d.coll, session |-> s,
              calls |-> Append(d.calls, Call("SetToken", 0, TRUE, -1)),
              set |-> SetToken(EmptyToken, s.Options)]
    ELSE
        LET s1 == IF s.ID = "" THEN [s EXCEPT !.ID = Hex(oid)] ELSE s
            u == upsert(m, c, s1, now, db)
            e == EncodeMulti(s1.name, StringPayload(s1.ID), m.Codecs, now)
        IN
        IF e.err # Nil
        THEN [err |-> e.err, coll |-> u.coll, session |-> s1, calls |-> u.calls, set |-> NoSet]
        ELSE [err |-> u.err, coll |-> u.coll, session |-> s1,
              calls |-> Append(u.calls, Call("SetToken", 0, TRUE, -1)),
              set |-> SetToken(e.tok, s1.Options)]

\* Save that encodes session.Values into the cookie
Save_TokenCarriesValues(m, c, s, now, db, oid) ==
    IF s.Options.MaxAge < 0
    THEN
        LET d == delete(c, s, db) IN
        IF d.err # Nil
        THEN [err |-> d.err, coll |-> c, session |-> s, calls |-> d.calls, set |-> NoSet]
        ELSE [err |-> Nil, coll |-> d.coll, session |-> s,
              calls |-> Append(d.calls, Call("SetToken", 0, TRUE, -1)),
              set |-> SetToken(EmptyToken, s.Options)]
    ELSE
        LET s1 == IF s.ID = "" THEN [s EXCEPT !.ID = Hex(oid)] ELSE s
            u == upsert(m, c, s1, now, db)
        IN
        IF u.err # Nil
        THEN [err |-> u.err, coll |-> u.coll, session |-> s1, calls |-> u.calls, set |-> NoSet]
        ELSE
        LET e == EncodeMulti(s1.name, [StringPayload(s1.ID) EXCEPT !.map = s1.Values],
                             m.Codecs, now)
        IN
        IF e.err # Nil
        THEN [err |-> e.err, coll |-> u.coll, session |-> s1, calls |-> u.calls, set |-> NoSet]
        ELSE [err |-> Nil, coll |-> u.coll, session |-> s1,
              calls |-> Append(u.calls, Call("SetToken", 0, TRUE, -1)),
              set |-> SetToken(e.tok, s1.Options)]

\* Save that gives every session without an identifier the same one
Save_MintsSameId(m, c, s, now, db, oid) ==
    IF s.Options.MaxAge < 0
    THEN
        LET d == delete(c, s, db) IN
        IF d.err # Nil
        THEN [err |-> d.err, coll |-> c, session |-> s, calls |-> d.calls, set |-> NoSet]
        ELSE [err |-> Nil, coll |-> d.coll, session |-> s,
              calls |-> Append(d.calls, Call("SetToken", 0, TRUE, -1)),
              set |-> SetToken(EmptyToken, s.Options)]
    ELSE
        LET s1 == IF s.ID = "" THEN [s EXCEPT !.ID = Hex(1)] ELSE s
            u == upsert(m, c, s1, now, db)
        IN
        IF u.err # Nil
        THEN [err |-> u.err, coll |-> u.coll, session |-> s1, calls |-> u.calls, set |-> NoSet]
        ELSE
        LET e == EncodeMulti(s1.name, StringPayload(s1.ID), m.Codecs, now) IN
        IF e.err # Nil
        THEN [err |-> e.err, coll |-> u.coll, session |-> s1, calls |-> u.calls, set |-> NoSet]
        ELSE [err |-> Nil, coll |-> u.coll, session |-> s1,
              calls |-> Append(u.calls, Call("SetToken", 0, TRUE, -1)),
              set |-> SetToken(e.tok, s1.Options)]

\* MongoDBStore.Save: now is the clock, oid the ObjectID that NewObjectID()
\* returns
Save(m, c, s, now, db, oid) ==
    IF s.Options.MaxAge < 0
    THEN
        LET d == delete(c, s, db) IN
        IF d.err # Nil
        THEN [err |-> d.err, coll |-> c, session |-> s, calls |-> d.calls, set |-> NoSet]
        ELSE [err |-> Nil, coll |-> d.coll, session |-> s,
              calls |-> Append(d.calls, Call("SetToken", 0, TRUE, -1)),
              set |-> SetToken(EmptyToken, s.Options)]
    ELSE
        LET s1 == IF s.ID = "" THEN [s EXCEPT !.ID = Hex(oid)] ELSE s
            u == upsert(m, c, s1, now, db)
        IN
        IF u.err # Nil
        THEN [err |-> u.err, coll |-> u.coll, session |-> s1, calls |-> u.calls, set |-> NoSet]
        ELSE
        LET e == EncodeMulti(s1.name, StringPayload(s1.ID), m.Codecs, now) IN
        IF e.err # Nil
        THEN [err |-> e.err, coll |-> u.coll, session |-> s1, calls |-> u.calls, set |-> NoSet]
        ELSE [err |-> Nil, coll |-> u.coll, session |-> s1,
              calls |-> Append(u.calls, Call("SetToken", 0, TRUE, -1)),
              set |-> SetToken(e.tok, s1.Options)]

(***************************************************************************)
(* The state machine.                                                      *)
(***************************************************************************)
DbStates == {"up", "down"}

\* the two requests that one client has in flight
Requests == {1, 2}

\* a request: its position (idle, in its handler with the session New
\* returned, inside Save before and after the collection call, done), its
\* session, the cookie it carried, the clock when it entered Save, the
\* error of its last store call and the SetToken call of its Save
IdleReq ==
    [pc |-> "idle", session |-> NoSession, cook |-> NoToken, t |-> 0,
     err |-> Nil, set |-> NoSet]

InSave(r) == reqs[r].pc \in {"saving", "written"}

\* The cookies a request can carry when n identifiers have been minted:
\* none, the empty string, a token under a key the store does not hold, a
\* token for another session name, a token that carries a values map, and
\* the tokens under the store's key, stamped at any time up to now, that
\* carry a minted identifier or a string that is no hex key (a party that
\* shares the key can issue such a token).
CookieIds(n) == {NotHex} \cup {Hex(o) : o \in 1..n}

Cookies(now, n) ==
    {NoToken, EmptyToken,
     Token("key-X", SessionName, StringPayload(Hex(1)), now),
     Token(KeyA, "other-name", StringPayload(Hex(1)), now),
     Token(KeyA, SessionName, MapPayload(EmptyValues), now)}
    \cup {Token(KeyA, SessionName, StringPayload(i), t) : i \in CookieIds(n), t \in 0..now}

\* the record of an operation: its name, the error it returned, the
\* identifier of the session passed to Save, the cookie given to New, the
\* age given to MaxAge or NewMongoDBStore, the clock when it started and
\* when it returned, whether it is a Save with a negative max-age of the
\* very session object that the operation before it saved, the calls it
\* made in order, and its SetToken call
NoLast ==
    [op |-> "init", err |-> Nil, argID |-> "", cookie |-> NoToken, age |-> 0,
     t1 |-> 0, t2 |-> 0, again |-> FALSE, calls |-> <<>>, set |-> NoSet]

Init ==
    /\ \E age \in Ages : store = NewMongoDBStore(age, <<KeyA>>)
    /\ coll = {}
    /\ clock = 0
    /\ session = NoSession
    /\ nextOid = 1
    /\ last = NoLast
    /\ reqs = [r \in Requests |-> IdleReq]
    /\ jar = NoToken

\* a request arrives with a cookie and the handler calls store.New
DoNew ==
    \E dt \in {0, 1}, db \in DbStates :
    \E cook \in Cookies(clock, nextOid - 1) :
        /\ clock + dt <= MaxClock
        /\ LET r == New(store, coll, SessionName, cook, clock, clock + dt, db) IN
            /\ session' = r.session
            /\ last' = [op |-> "New", err |-> r.err, argID |-> "", cookie |-> cook,
                        age |-> 0, t1 |-> clock, t2 |-> clock + dt, again |-> FALSE,
                        calls |-> r.calls, set |-> NoSet]
        /\ clock' = clock + dt
        /\ UNCHANGED <<store, coll, nextOid, reqs, jar>>

\* the handler edits the session (values, max-age) and calls store.Save
DoSave ==
    \E db \in DbStates :
    \E v \in ValuesSet, age \in {session.Options.MaxAge, -1} :
        /\ session.live
        /\ LET s == [session EXCEPT !.Values = v, !.Options.MaxAge = age]
               mint == s.Options.MaxAge >= 0 /\ s.ID = ""
               r == Save(store, coll, s, clock, db, nextOid)
           IN
            /\ mint => nextOid <= MaxIds
            /\ nextOid' = IF mint THEN nextOid + 1 ELSE nextOid
            /\ coll' = r.coll
            /\ session' = r.session
            /\ last' = [op |-> "Save", err |-> r.err, argID |-> s.ID, cookie |-> NoToken,
                        age |-> 0, t1 |-> clock, t2 |-> clock,
                        again |-> (last.op = "Save" /\ s = session /\ s.Options.MaxAge < 0),
                        calls |-> r.calls, set |-> r.set]
        /\ UNCHANGED <<store, clock, reqs, jar>>

\* store.MaxAge(age), called while no request is inside Save
DoMaxAge ==
    \E age \in Ages :
        /\ \A r \in Requests : ~InSave(r)
        /\ store' = MaxAge(store, age)
        /\ last' = [NoLast EXCEPT !.op = "MaxAge", !.age = age]
        /\ UNCHANGED <<coll, clock, session, nextOid, reqs, jar>>

\* a second passes
Tick ==
    /\ clock < MaxClock
    /\ clock' = clock + 1
    /\ UNCHANGED <<store, coll, session, nextOid, last, reqs, jar>>

Next == DoNew \/ DoSave \/ DoMaxAge \/ Tick

Spec == Init /\ [][Next]_vars

(***************************************************************************)
(* Two requests at once, and key rotation.                                 *)
(***************************************************************************)
KeyB == "key-B"

\* the values the handlers of the two requests store
ConcValues == {EmptyValues, [foo |-> "bar", modified |-> TimeModified(0)]}

\* the struct that session.Options points to
Opts(s) == IF s.OptionsAt = "store" THEN store.Options ELSE s.Options

\* the client's first visit, served alone: New on a request without a
\* cookie, then Save, and the cookie reaches the client
FirstVisit ==
    \E v \in ConcValues :
        /\ nextOid = 1
        /\ jar = NoToken
        /\ \A r \in Requests : reqs[r].pc = "idle"
        /\ LET n == New(store, coll, SessionName, NoToken, clock, clock, "up")
               w == Save(store, coll, [n.session EXCEPT !.Values = v], clock, "up", nextOid)
           IN
            /\ coll' = w.coll
            /\ jar' = w.set.value
        /\ nextOid' = nextOid + 1
        /\ UNCHANGED <<store, clock, session, last, reqs>>

\* request r arrives with the client's cookie and its handler calls
\* store.New; the collection answers its read (its failure is a case of
\* DoNew)
ReqNew(r) ==
        /\ reqs[r].pc = "idle"
        /\ LET n == New(store, coll, SessionName, jar, clock, clock, "up") IN
            reqs' = [reqs EXCEPT ![r] = [pc |-> "handler", session |-> n.session,
                                         cook |-> jar, t |-> clock, err |-> n.err,
                                         set |-> NoSet]]
        /\ UNCHANGED <<store, coll, clock, session, nextOid, last, jar>>

\* the handler of r edits its session (values, max-age) and enters Save,
\* which reads the clock
ReqBegin(r) ==
    \E v \in ConcValues, age \in {Opts(reqs[r].session).MaxAge, -1} :
        /\ reqs[r].pc = "handler"
        /\ reqs' = [reqs EXCEPT ![r] =
                        [@ EXCEPT !.pc = "saving", !.t = clock,
                                  !.session = [@ EXCEPT !.Values = v,
                                                        !.Options = [Opts(reqs[r].session)
                                                                     EXCEPT !.MaxAge = age]]]]
        /\ store' = IF reqs[r].session.OptionsAt = "store"
                     THEN [store EXCEPT !.Options.MaxAge = age]
                     ELSE store
        /\ UNCHANGED <<coll, clock, session, nextOid, last, jar>>

\* the Save of r makes its call on the collection
ReqWrite(r) ==
    \E db \in DbStates :
        /\ reqs[r].pc = "saving"
        /\ LET s == reqs[r].session
               mint == s.Options.MaxAge >= 0 /\ s.ID = ""
               w == Save(store, coll, s, reqs[r].t, db, nextOid)
           IN
            /\ mint => nextOid <= MaxIds
            /\ nextOid' = IF mint THEN nextOid + 1 ELSE nextOid
            /\ coll' = w.coll
            /\ reqs' = [reqs EXCEPT ![r] =
                            [@ EXCEPT !.pc = IF w.err = Nil THEN "written" ELSE "done",
                                      !.session = w.session, !.err = w.err, !.set = w.set]]
        /\ UNCHANGED <<store, clock, session, last, jar>>

\* the cookie that the Save of r set reaches the client
ReqToken(r) ==
    /\ reqs[r].pc = "written"
    /\ jar' = reqs[r].set.value
    /\ reqs' = [reqs EXCEPT ![r].pc = "done"]
    /\ UNCHANGED <<store, coll, clock, session, nextOid, last>>

\* the service is restarted, no request being served, with a new first
\* key pair: NewMongoDBStore on the same collection with the key pairs B, A
Rotate ==
    /\ Len(store.Codecs) = 1
    /\ \A r \in Requests : reqs[r].pc \in {"idle", "done"}
    /\ store' = NewMongoDBStore(store.Options.MaxAge, <<KeyB, KeyA>>)
    /\ last' = [NoLast EXCEPT !.op = "NewMongoDBStore", !.age = store.Options.MaxAge]
    /\ UNCHANGED <<coll, clock, session, nextOid, reqs, jar>>

ConcNext ==
    \/ FirstVisit
    \/ \E r \in Requests : ReqNew(r)
    \/ \E r \in Requests : ReqBegin(r)
    \/ \E r \in Requests : ReqWrite(r)
    \/ \E r \in Requests : ReqToken(r)
    \/ Rotate
    \/ DoMaxAge
    \/ Tick

ConcSpec == Init /\ [][ConcNext]_vars

(***************************************************************************)
(* Vocabulary of the properties.                                           *)
(***************************************************************************)
\* the documents stored under the key that a session identifier spells
DocsFor(c, id) == {d \in c : ObjectIDFromHex(id).ok /\ d.ID = ObjectIDFromHex(id).oid}

\* a token stamped at ts is within a codec window of age seconds at now
Within(ts, now, age) == age = 0 \/ ts >= now - age

\* a token is within the window of every codec of the store at now
Unexpired(tok, now) ==
    \A i \in DOMAIN store.Codecs : Within(tok.ts, now, store.Codecs[i].maxAge)

\* the collection answered every call of the operation
Answered(l) == \A i \in DOMAIN l.calls : l.calls[i].ok

\* the last operation was a Save with a non-negative max-age that returned
\* no error; session is the session it saved
SavedOk == last.op = "Save" /\ last.err = Nil /\ session.Options.MaxAge >= 0

\* the last operation was a Save with a negative max-age
SavedNegative == last.op = "Save" /\ session.Options.MaxAge < 0

(***************************************************************************)
(* C1  Round trip.                                                         *)
(***************************************************************************)
\* this step is a New on a request that carries the token the Save before
\* it set, and the collection answers New's read
LoadsSaved ==
    /\ SavedOk
    /\ last'.op = "New"
    /\ last'.cookie = last.set.value
    /\ Answered(last')

RoundTripped ==
    /\ last'.err = Nil
    /\ ~session'.IsNew
    /\ session'.ID = session.ID
    /\ session'.Values = session.Values

\* C1 as stated: whenever a Save with a non-negative max-age has returned
\* no error, a New that follows it (with the same codecs, no operation in
\* between, any number of seconds later) on a request carrying the token
\* that Save set returns no error and a session with is-new = false, the
\* same identifier and the saved values.
C1_RoundTripAnyTime == [][LoadsSaved => RoundTripped]_vars

\* C1 amended: the same, provided the token (and with it the stored data,
\* encoded in the same second) is still within the codecs' max-age window
\* when New returns.
C1_RoundTrip == [][LoadsSaved /\ Unexpired(last.set.value, last'.t2) => RoundTripped]_vars

\* a New, a second or more after the token was stamped, has loaded the
\* values {"foo": "bar", "modified": T} that a Save stored
C1_Witness ==
    /\ last.op = "New"
    /\ last.cookie.kind = "enc"
    /\ last.cookie.ts < clock
    /\ ~session.IsNew
    /\ session.Values.foo = "bar"

(***************************************************************************)
(* C2  Save with a negative max-age on a session that was never saved.     *)
(***************************************************************************)
NeverSavedNegative == SavedNegative /\ last.argID = ""

\* C2 as stated: a Save with a negative max-age on a session with an empty
\* identifier returns no error and clears the cookie.
C2_NeverSavedSucceeds ==
    NeverSavedNegative => last.err = Nil /\ last.set = SetToken(EmptyToken, session.Options)

\* C2 amended: every Save with a negative max-age on a session with an
\* empty identifier, the first and the second alike, returns the "invalid
\* session id" sentinel, calls neither the collection nor the token
\* transport, and leaves the collection and the identifier as they were.
C2_NeverSavedFailsClosed ==
    [][NeverSavedNegative' =>
        /\ last'.err = ErrInvalidId
        /\ last'.calls = <<>>
        /\ ~last'.set.called
        /\ coll' = coll
        /\ session'.ID = ""]_vars

\* the second of two such Saves on the same session has returned
C2_Witness == NeverSavedNegative /\ last.again /\ last.err = ErrInvalidId

(***************************************************************************)
(* C3  Save with a negative max-age on a persisted session.                *)
(***************************************************************************)
\* the last operation was a Save with a negative max-age on a session whose
\* identifier parses, and the collection answered
Deleted == SavedNegative /\ ObjectIDFromHex(last.argID).ok /\ Answered(last)

\* such a Save returns no error, first or second, leaves no document under
\* the identifier and clears the cookie with the session's own options
DeleteEffect ==
    Deleted' =>
        /\ last'.err = Nil
        /\ DocsFor(coll', session'.ID) = {}
        /\ \A d \in coll : d \notin DocsFor(coll, session'.ID) => d \in coll'
        /\ last'.set = SetToken(EmptyToken, session'.Options)
        /\ session'.Options.MaxAge < 0

\* this step is a New, after such a Save has removed a document, on a
\* request that carries the token that was issued when the removed document
\* was written
LoadsDeleted ==
    /\ Deleted
    /\ last.err = Nil
    /\ last.calls[1].old >= 0
    /\ last'.op = "New"
    /\ last'.cookie = Token(store.Codecs[1].key, session.name, StringPayload(session.ID),
                            last.calls[1].old)

\* C3 as stated: the document is removed and the cookie cleared, and New
\* with the previously issued token then returns a fresh session with a
\* nil error.
C3_DeleteThenNewNilError ==
    [][DeleteEffect /\ (LoadsDeleted => session'.IsNew /\ last'.err = Nil)]_vars

\* C3 amended: the document is removed and the cookie cleared, and New with
\* the previously issued token then returns a fresh session, with a nil
\* error while the token is within the codecs' max-age window and with a
\* decode error once it is older.
C3_DeleteThenNew ==
    [][DeleteEffect /\
       (LoadsDeleted =>
            /\ session'.IsNew
            /\ session'.Values = EmptyValues
            /\ last'.err = IF Unexpired(last'.cookie, last'.t1) THEN Nil ELSE ErrDecode)]_vars

\* a Save with a negative max-age has removed a stored document
C3_Witness ==
    /\ Deleted
    /\ last.err = Nil
    /\ last.calls[1].old >= 0
    /\ DocsFor(coll, session.ID) = {}

(***************************************************************************)
(* C4  The cookie is set only after the collection operation succeeded.    *)
(***************************************************************************)
\* C4: in every Save the token transport is called exactly when Save
\* returns no error, as the call after a successful ReplaceOne (max-age
\* >= 0) or DeleteOne (max-age < 0); a Save whose collection call or
\* encoding failed returns that error without a SetToken call; and a
\* non-empty cookie carries the identifier under which this Save wrote the
\* encoding of the session's values.
C4_CookieAfterCollection ==
    last.op = "Save" =>
        /\ last.set.called <=> last.err = Nil
        /\ ~Answered(last) => last.err = ErrDB
        /\ last.err \in {ErrDB, ErrEncode, ErrInvalidId, ErrInvalidModified} =>
               \A i \in DOMAIN last.calls : last.calls[i].fn # "SetToken"
        /\ last.set.called =>
            /\ Len(last.calls) = 2
            /\ last.calls[1].fn = IF session.Options.MaxAge < 0 THEN "DeleteOne" ELSE "ReplaceOne"
            /\ last.calls[1].ok
            /\ last.calls[2].fn = "SetToken"
        /\ last.set.called /\ last.set.value.kind = "enc" =>
            /\ last.set.value.payload = StringPayload(session.ID)
            /\ \E d \in DocsFor(coll, session.ID) :
                   d.Data.payload = MapPayload(session.Values) /\ d.Data.ts = last.t1

\* a Save whose ReplaceOne failed has returned the error and set no cookie
C4_Witness ==
    /\ last.op = "Save"
    /\ last.err = ErrDB
    /\ Len(last.calls) = 1
    /\ last.calls[1].fn = "ReplaceOne"
    /\ ~last.set.called

(***************************************************************************)
(* C5  New on a cookie that decodes to an identifier that does not parse.  *)
(***************************************************************************)
\* a codec of the store authenticates the token for the name at now: its
\* key made the token for that name, and the token is within its window
Authenticates(tok, name, now) ==
    \E i \in DOMAIN store.Codecs :
        /\ tok.kind = "enc"
        /\ tok.key = store.Codecs[i].key
        /\ tok.name = name
        /\ Within(tok.ts, now, store.Codecs[i].maxAge)

\* the last operation was a New whose cookie decoded into an identifier
DecodedId ==
    /\ last.op = "New"
    /\ Authenticates(last.cookie, session.name, last.t1)
    /\ last.cookie.payload.type = "string"

DecodedUnparsable == DecodedId /\ ~ObjectIDFromHex(last.cookie.payload.str).ok

\* C5 as stated: when the cookie decodes into an identifier that does not
\* parse as a document key, New returns the "invalid session id" sentinel
\* with a fresh session.
C5_UnparsableSentinel == DecodedUnparsable => last.err = ErrInvalidId /\ session.IsNew

\* C5 amended: in that case New returns a nil error (the sentinel of load
\* is swallowed) with a fresh session, is-new = true.
C5_UnparsableSwallowed == DecodedUnparsable => last.err = Nil /\ session.IsNew

\* a New has decoded a cookie into an identifier that is no hex key
C5_Witness ==
    /\ DecodedUnparsable
    /\ session.ID = NotHex
    /\ session.IsNew
    /\ last.calls = <<>>

(***************************************************************************)
(* C6  New when the document is missing or its data does not decode.       *)
(***************************************************************************)
DecodedParsable == DecodedId /\ ObjectIDFromHex(last.cookie.payload.str).ok

\* the collection answers with a document under the cookie's identifier
\* whose data a codec of the store decodes into a values map when load
\* reads it
Loadable(d) ==
    /\ d \in DocsFor(coll, last.cookie.payload.str)
    /\ Answered(last)
    /\ Authenticates(d.Data, session.name, last.t2)
    /\ d.Data.payload.type = "map"

\* C6: a New whose cookie decodes into a parsable identifier returns a nil
\* error; its session is fresh (is-new = true) when no document is found
\* or the data does not decode, and is-new = false is returned only when
\* the document was found and its data decoded, the values being the
\* decoded ones.
C6_MissingOrCorrupt ==
    last.op = "New" =>
        /\ DecodedParsable =>
            /\ last.err = Nil
            /\ session.IsNew <=> ~\E d \in coll : Loadable(d)
        /\ ~session.IsNew =>
            /\ DecodedParsable
            /\ \E d \in coll : Loadable(d) /\ session.Values = d.Data.payload.map

\* a New has found no document under a parsable identifier
C6_Witness ==
    /\ DecodedParsable
    /\ Len(last.calls) = 1
    /\ last.calls[1].ok
    /\ DocsFor(coll, last.cookie.payload.str) = {}
    /\ session.IsNew
    /\ last.err = Nil

(***************************************************************************)
(* C7  New when no codec authenticates the cookie, or there is none.       *)
(***************************************************************************)
FreshSession == session.IsNew /\ session.Values = EmptyValues /\ session.ID = ""

\* C7: when a cookie is present and no codec of the store authenticates
\* it, New returns a decode error with a fresh session (is-new = true,
\* empty values) and does not query the collection; when no cookie is
\* present, New returns the fresh session with a nil error.
C7_TamperRejected ==
    last.op = "New" =>
        /\ last.cookie.kind # "none" /\ ~Authenticates(last.cookie, session.name, last.t1) =>
               last.err = ErrDecode /\ FreshSession /\ last.calls = <<>>
        /\ last.cookie.kind = "none" =>
               last.err = Nil /\ FreshSession /\ last.calls = <<>>

\* a New has rejected a token made under a key the store does not hold
C7_Witness ==
    /\ last.op = "New"
    /\ last.cookie.kind = "enc"
    /\ last.cookie.key \notin {store.Codecs[i].key : i \in DOMAIN store.Codecs}
    /\ last.err = ErrDecode
    /\ session.IsNew

(***************************************************************************)
(* C8  Save of a session whose identifier does not parse.                  *)
(***************************************************************************)
SavedUnparsable ==
    /\ last.op = "Save"
    /\ session.Options.MaxAge >= 0
    /\ last.argID # ""
    /\ ~ObjectIDFromHex(last.argID).ok

\* C8: a Save with a non-negative max-age on a session whose identifier is
\* non-empty and does not parse returns the "invalid session id" sentinel,
\* writes no document, leaves the identifier as it was and sets no cookie.
C8_InvalidIdOnSave ==
    [][SavedUnparsable' =>
        /\ last'.err = ErrInvalidId
        /\ coll' = coll
        /\ last'.calls = <<>>
        /\ session'.ID = last'.argID
        /\ ~last'.set.called]_vars

C8_Witness == SavedUnparsable /\ last.argID = NotHex /\ last.err = ErrInvalidId

(***************************************************************************)
(* C9  The Modified field of the document.                                 *)
(***************************************************************************)
HasModified(v) == v.modified.kind # "absent"

\* C9: after a successful Save with a non-negative max-age the one document
\* under the session's identifier has Modified = values["modified"] when
\* that key holds a timestamp, and Modified = the clock at the Save when
\* the key is absent; when neither this Save nor the one that wrote the
\* document before had the key, Modified does not decrease.
C9_ModifiedPinned ==
    [][SavedOk' =>
        /\ Cardinality(DocsFor(coll', session'.ID)) = 1
        /\ \A d \in DocsFor(coll', session'.ID) :
            /\ d.Modified = IF HasModified(session'.Values)
                             THEN session'.Values.modified.t ELSE last'.t1
            /\ \A d0 \in DocsFor(coll, session'.ID) :
                   ~HasModified(session'.Values) /\ ~HasModified(d0.Data.payload.map)
                       => d.Modified >= d0.Modified]_vars

\* a Save with values["modified"] = 0 has replaced a document written at
\* second 1 or later, and the document's Modified is 0
C9_Witness ==
    /\ SavedOk
    /\ session.Values.modified = TimeModified(0)
    /\ last.calls[1].old >= 1
    /\ \A d \in DocsFor(coll, session.ID) : d.Modified = 0 /\ d.Data.ts >= 1

(***************************************************************************)
(* C10  A "modified" value that is not a timestamp.                        *)
(***************************************************************************)
SavedIllTyped ==
    /\ last.op = "Save"
    /\ session.Options.MaxAge >= 0
    /\ session.Values.modified.kind = "string"

\* C10: a Save with a non-negative max-age of values whose "modified" is
\* not a timestamp returns a validation error (the invalid-modified error,
\* or the "invalid session id" sentinel when the identifier does not parse
\* either), leaves the collection unchanged and sets no cookie.
C10_IllTypedModified ==
    [][SavedIllTyped' =>
        /\ last'.err = IF ObjectIDFromHex(session'.ID).ok
                        THEN ErrInvalidModified ELSE ErrInvalidId
        /\ coll' = coll
        /\ last'.calls = <<>>
        /\ ~last'.set.called]_vars

C10_Witness ==
    /\ SavedIllTyped
    /\ last.err = ErrInvalidModified
    /\ coll # {}

(***************************************************************************)
(* C11  Key rotation.                                                      *)
(***************************************************************************)
\* this step is the New of request r, the Save's collection call of r
NewStep(r) == reqs[r].pc = "idle" /\ reqs'[r].pc = "handler"
WriteStep(r) == reqs[r].pc = "saving" /\ reqs'[r].pc \in {"written", "done"}

\* the store holds the key pairs B, A
Rotated == Len(store.Codecs) = 2 /\ store.Codecs[1].key = KeyB /\ store.Codecs[2].key = KeyA

\* the client's cookie and the document d were written by a Save while the
\* codec list was [A]
SavedUnderA(d) ==
    /\ jar.kind = "enc"
    /\ jar.key = KeyA
    /\ jar.name = SessionName
    /\ jar.payload.type = "string"
    /\ d \in DocsFor(coll, jar.payload.str)
    /\ d.Data.kind = "enc"
    /\ d.Data.key = KeyA
    /\ d.Data.name = SessionName
    /\ d.Data.payload.type = "map"

\* the New of r returns no error and a session with is-new = false, the
\* cookie's identifier and the values of d
LoadedFrom(r, d) ==
    /\ reqs'[r].err = Nil
    /\ ~reqs'[r].session.IsNew
    /\ reqs'[r].session.ID = jar.payload.str
    /\ reqs'[r].session.Values = d.Data.payload.map

\* C11 as stated: after the codec list is reconfigured to [B, A], New on
\* the cookie of a session saved while the list was [A] returns a session
\* with is-new = false and the saved values, any number of seconds after
\* the Save.
C11_KeyRotationAnyTime ==
    [][\A r \in Requests :
        NewStep(r) /\ Rotated => \A d \in coll : SavedUnderA(d) => LoadedFrom(r, d)]_vars

\* C11 amended: after the codec list is reconfigured to [B, A], New on the
\* cookie of a session saved while the list was [A] returns no error and a
\* session with is-new = false, the identifier and the saved values,
\* provided the cookie and the stored data are within the codecs' max-age
\* window; New returns a decode error exactly when no codec of the list
\* decodes the cookie into an identifier; and every successful Save
\* encodes the data and the cookie with the first codec of the list.
C11_KeyRotation ==
    [][\A r \in Requests :
        /\ NewStep(r) /\ Rotated =>
               \A d \in coll :
                   SavedUnderA(d) /\ Unexpired(jar, clock) /\ Unexpired(d.Data, clock)
                       => LoadedFrom(r, d)
        /\ NewStep(r) =>
               (reqs'[r].err = ErrDecode <=>
                    /\ jar.kind # "none"
                    /\ ~(Authenticates(jar, SessionName, clock) /\ jar.payload.type = "string"))
        /\ WriteStep(r) /\ reqs'[r].err = Nil /\ reqs'[r].session.Options.MaxAge >= 0 =>
               /\ reqs'[r].set.value.key = store.Codecs[1].key
               /\ \A d \in DocsFor(coll', reqs'[r].session.ID) :
                      d.Data.key = store.Codecs[1].key]_vars

\* after the rotation a request has loaded, from a cookie and a document
\* encoded with key A, the values {"foo": "bar", ...}
C11_Witness ==
    \E r \in Requests :
        /\ Rotated
        /\ reqs[r].pc = "handler"
        /\ reqs[r].cook.key = KeyA
        /\ ~reqs[r].session.IsNew
        /\ reqs[r].session.Values.foo = "bar"
        /\ \E d \in DocsFor(coll, reqs[r].session.ID) : d.Data.key = KeyA

(***************************************************************************)
(* C12  Max-age propagation.                                               *)
(***************************************************************************)
\* the default max-age of store m and the window of each of its codecs
\* are n
Propagated(m, n) ==
    /\ m.Options.MaxAge = n
    /\ \A i \in DOMAIN m.Codecs : m.Codecs[i].maxAge = n

\* C12: after MaxAge(N), and after NewMongoDBStore with max-age N, the
\* store's default max-age is N and the window of every codec in the list
\* is N.
C12_MaxAgePropagation ==
    /\ last.op \in {"MaxAge", "NewMongoDBStore"} => Propagated(store, last.age)
    /\ last.op = "init" => Propagated(store, store.Options.MaxAge)

\* MaxAge(1) has returned on a store of two codecs
C12_Witness ==
    /\ last.op = "MaxAge"
    /\ last.age = 1
    /\ Rotated
    /\ store.Codecs[2].maxAge = 1

(***************************************************************************)
(* C13  Identifier minting.                                                *)
(***************************************************************************)
\* this step is a Save (Save does not let the clock advance)
SaveStep == last'.op = "Save" /\ clock' = clock

\* C13: a Save with a non-negative max-age on a session with an empty
\* identifier assigns, before the upsert and whether or not the upsert
\* succeeds, an identifier of 24 characters that parses as a document key
\* and is the key of no document in the collection; the upsert is made
\* under that key; and no Save changes an identifier that is not empty.
C13_Minting ==
    [][SaveStep =>
        /\ session'.Options.MaxAge >= 0 /\ last'.argID = "" =>
            /\ session.ID = ""
            /\ Len(session'.ID) = 24
            /\ ObjectIDFromHex(session'.ID).ok
            /\ \A d \in coll : d.ID # ObjectIDFromHex(session'.ID).oid
            /\ \A i \in DOMAIN last'.calls :
                   last'.calls[i].fn = "ReplaceOne" =>
                       last'.calls[i].oid = ObjectIDFromHex(session'.ID).oid
            /\ last'.err = Nil => DocsFor(coll', session'.ID) # {}
        /\ last'.argID # "" => session.ID = last'.argID /\ session'.ID = last'.argID]_vars

\* a Save has minted an identifier while the collection held a document
C13_Witness ==
    /\ SavedOk
    /\ last.argID = ""
    /\ session.ID = Hex(2)
    /\ \E d \in coll : d.ID = 1
    /\ \E d \in coll : d.ID = 2

(***************************************************************************)
(* C14  Two Saves at once on one identifier.                               *)
(***************************************************************************)
\* this step delivers the cookie that the Save of r set
TokenStep(r) == reqs[r].pc = "written" /\ reqs'[r].pc = "done"

\* the Save of r, with a non-negative max-age, returned no error
SavedBy(r) ==
    /\ reqs[r].pc \in {"written", "done"}
    /\ reqs[r].err = Nil
    /\ reqs[r].set.called
    /\ reqs[r].session.Options.MaxAge >= 0

\* d holds the complete encoded values of the Save of r
DataOf(d, r) ==
    /\ d.Data.kind = "enc"
    /\ d.Data.name = reqs[r].session.name
    /\ d.Data.payload = MapPayload(reqs[r].session.Values)
    /\ d.Data.ts = reqs[r].t

\* both requests are done, and their Saves succeeded on sessions that share
\* an identifier
BothSaved ==
    /\ \A r \in Requests : reqs[r].pc = "done" /\ SavedBy(r)
    /\ reqs[1].session.ID = reqs[2].session.ID

\* C14: in every interleaving of the steps of two Saves, the successful
\* collection call of a Save with a non-negative max-age leaves exactly
\* one document under its identifier, holding the complete encoded values
\* of that Save, and the client's cookie is replaced by each cookie a Save
\* sets; so when both Saves on one identifier are done the collection
\* holds one document for it, the data of one of the two (the one whose
\* replace ran last), and the client holds the cookie of one of the two
\* (the one set last).
C14_LastWriterWins ==
    [][/\ \A r \in Requests :
            /\ WriteStep(r) /\ SavedBy(r)' =>
                /\ Cardinality(DocsFor(coll', reqs'[r].session.ID)) = 1
                /\ \A d \in DocsFor(coll', reqs'[r].session.ID) : DataOf(d, r)'
            /\ TokenStep(r) => jar' = reqs[r].set.value /\ coll' = coll
       /\ BothSaved' =>
            /\ Cardinality(DocsFor(coll', reqs'[1].session.ID)) = 1
            /\ \A d \in DocsFor(coll', reqs'[1].session.ID) :
                   \E r \in Requests : DataOf(d, r)'
            /\ \E r \in Requests : jar' = reqs'[r].set.value]_vars

\* two Saves of different values on one identifier have interleaved: the
\* document is the one request 1 wrote, the cookie the one request 2 set
C14_Witness ==
    /\ BothSaved
    /\ reqs[1].session.Values # reqs[2].session.Values
    /\ reqs[1].set.value # reqs[2].set.value
    /\ \A d \in DocsFor(coll, reqs[1].session.ID) : DataOf(d, 1)
    /\ jar = reqs[2].set.value

(***************************************************************************)
(* C15  The cookie carries the identifier only.                            *)
(***************************************************************************)
\* C15: every non-empty value that a Save passes to the token transport is
\* the encoding, under the session's name, of the identifier and of
\* nothing else; and when two Saves in a row of sessions with the same
\* name and identifier both succeed, whatever their values, their tokens
\* differ at most in the time stamp.
C15_TokenIdOnly ==
    [][SaveStep =>
        /\ last'.set.called => last'.set.value.kind \in {"enc", "empty"}
        /\ last'.set.called /\ last'.set.value.kind = "enc" =>
            /\ last'.set.value.name = session'.name
            /\ last'.set.value.payload.type = "string"
            /\ last'.set.value.payload.str = session'.ID
            /\ last'.set.value.payload.map = EmptyValues
        /\ SavedOk /\ SavedOk' /\ session'.name = session.name /\ session'.ID = session.ID =>
               last'.set.value = [last.set.value EXCEPT !.ts = last'.t1]]_vars

\* a Save of the values {"foo": "bar", ...} has replaced the document of
\* an earlier Save and set a cookie that carries the identifier
C15_Witness ==
    /\ SavedOk
    /\ session.Values.foo = "bar"
    /\ last.calls[1].old >= 0
    /\ last.set.value.kind = "enc"
    /\ last.set.value.payload = StringPayload(session.ID)

(***************************************************************************)
(* C16  The identifier and the values of a session that is new.            *)
(***************************************************************************)
\* C16 as stated: every session that New returns with is-new = true has an
\* empty identifier and empty values.
C16_FreshIsEmpty ==
    last.op = "New" /\ session.IsNew => session.ID = "" /\ session.Values = EmptyValues

(***************************************************************************)
(* C17  One document per identifier.                                       *)
(***************************************************************************)
\* C17: the collection never holds two documents with one identifier, and
\* after a successful Save with a non-negative max-age it holds exactly
\* one document under the session's identifier, whose data is the encoding
\* of the session's values as they are, with no key of an earlier Save.
C17_OneDocPerId ==
    /\ \A d1, d2 \in coll : d1.ID = d2.ID => d1 = d2
    /\ SavedOk =>
        /\ Cardinality(DocsFor(coll, session.ID)) = 1
        /\ \A d \in DocsFor(coll, session.ID) :
            /\ d.Data.kind = "enc"
            /\ d.Data.name = session.name
            /\ d.Data.payload = MapPayload(session.Values)

\* a Save of the empty values has replaced a document, a second document
\* being in the collection
C17_Witness ==
    /\ SavedOk
    /\ session.Values = EmptyValues
    /\ last.calls[1].old >= 0
    /\ Cardinality(coll) = 2
    /\ \A d \in DocsFor(coll, session.ID) : d.Data.payload.map.foo = "absent"

(***************************************************************************)
(* C18  Frame.                                                             *)
(***************************************************************************)
\* C18: a New leaves the collection as it is and calls nothing on it but
\* FindOne; and a document that a step inserts, replaces or removes is
\* touched by a Save and has the key of the saved session's identifier.
C18_Frame ==
    [][/\ last'.op = "New" =>
            /\ coll' = coll
            /\ \A i \in DOMAIN last'.calls : last'.calls[i].fn = "FindOne"
       /\ \A d \in (coll \ coll') \cup (coll' \ coll) :
            /\ SaveStep
            /\ d \in DocsFor(coll \cup coll', session'.ID)]_vars

\* a Save with a negative max-age has removed a document and another
\* document is still there
C18_Witness ==
    /\ Deleted
    /\ last.err = Nil
    /\ last.calls[1].old >= 0
    /\ coll # {}

(***************************************************************************)
(* C19  Options isolation.                                                 *)
(***************************************************************************)
\* this step is the handler of r editing its session and entering Save
BeginStep(r) == reqs[r].pc = "handler" /\ reqs'[r].pc = "saving"

\* the session of r exists
HasSession(r) == reqs[r].pc # "idle"

\* C19: the session that New returns has the store's default options as
\* they are at the call; the options of a session change only when its
\* own handler edits them; and the store's defaults change only by a call
\* of MaxAge, never by an edit of a session's options.
C19_OptionsIsolation ==
    [][/\ \A r \in Requests :
            /\ NewStep(r) => Opts(reqs[r].session)' = store.Options
            /\ HasSession(r) /\ Opts(reqs[r].session)' # Opts(reqs[r].session) =>
                   BeginStep(r)
       /\ store'.Options # store.Options => last'.op = "MaxAge" /\ (\A r \in Requests : reqs'[r] = reqs[r])]_vars

\* MaxAge(1) has been called on the store while the session of request 1 has
\* max-age -1 and the session of request 2, made when the default was 0, is
\* with its handler
C19_Witness ==
    /\ last.op = "MaxAge"
    /\ store.Options.MaxAge = 1
    /\ HasSession(1)
    /\ reqs[1].session.Options.MaxAge = -1
    /\ reqs[2].pc = "handler"
    /\ reqs[2].session.Options.MaxAge = 0

====
